---- MODULE Spec2Model ----
(***************************************************************************)
(* Model of scripts/download_airports.py: the periodic refresh pipeline    *)
(* download_file -> filter_csv -> cleanup, driven by run_once from main    *)
(* (single shot) or run_continuously (loop with sleep).                    *)
(*                                                                         *)
(* Text is modelled as a sequence of tokens (a token is one whitespace     *)
(* character " " or a run of other characters), a CSV row as a sequence of *)
(* cells, a file as a sequence of rows (one row = one chunk written), and  *)
(* a file name as its sequence of dot-separated parts.                     *)
(***************************************************************************)
EXTENDS Integers, Sequences, FiniteSets, TLC

(***************************************************************************)
(* Bounds                                                                  *)
(***************************************************************************)
MaxCycles == 2

(***************************************************************************)
(* Text, rows and files                                                    *)
(***************************************************************************)
S(w) == <<w>>
Empty == <<>>
WS == " "

\* the value csv.DictReader stores for a field the row is too short for
NoneValue == <<"<None>">>
\* the key csv.DictReader stores surplus cells under
restkey == <<"<restkey>">>
\* a path that does not exist
NoFile == <<<<<<"<absent>">>>>>>
\* a row-sized gap left by a write beyond the end of a file
Hole == <<<<"<hole>">>>>

RECURSIVE lstrip(_)
lstrip(s) == IF s # <<>> /\ Head(s) = WS THEN lstrip(Tail(s)) ELSE s

RECURSIVE rstrip(_)
rstrip(s) ==
  IF s # <<>> /\ s[Len(s)] = WS THEN rstrip(SubSeq(s, 1, Len(s) - 1)) ELSE s

\* str.strip()
strip(s) == rstrip(lstrip(s))

\* [f for f in seq if keep(f)], order preserved
RECURSIVE SelectIdx(_, _, _)
SelectIdx(seq, keep, i) ==
  IF i > Len(seq) THEN <<>>
  ELSE (IF keep[i] THEN <<seq[i]>> ELSE <<>>) \o SelectIdx(seq, keep, i + 1)

\* the name would come back unchanged
with_suffix_ignored(name, suffix) == name

\* Path.with_suffix(suffix) on a name given as its dot-separated parts;
\* a name that is only a leading dot plus one part has no suffix
with_suffix(name, suffix) ==
  IF Len(name) > 1 /\ ~(Len(name) = 2 /\ name[1] = "")
  THEN SubSeq(name, 1, Len(name) - 1) \o suffix
  ELSE name \o suffix

\* the download would go straight to the output path
temp_path_in_place(out) == out

\* temp_path = output_path.with_suffix('.tmp.csv')
temp_path_of(out) == with_suffix(out, <<"tmp", "csv">>)

\* f.write(chunk) through a descriptor whose offset is off rows: the row at
\* off+1 is overwritten or appended, a gap before it is zero-filled
WriteAt(content, off, row) ==
  [i \in 1..(IF off + 1 > Len(content) THEN off + 1 ELSE Len(content)) |->
     IF i = off + 1 THEN row
     ELSE IF i <= Len(content) THEN content[i] ELSE Hole]

(***************************************************************************)
(* filter_csv as a function of the raw file                                *)
(***************************************************************************)
columns_to_remove == {S("id"), S("home_link"), S("wikipedia_link"), S("keywords")}

\* no column would be removed
output_fieldnames_all(fieldnames) == fieldnames

\* output_fieldnames = [f for f in fieldnames if f not in columns_to_remove]
output_fieldnames_of(fieldnames) ==
  SelectIdx(fieldnames,
            [i \in 1..Len(fieldnames) |-> fieldnames[i] \notin columns_to_remove], 1)

\* row.get(key, default) on the dict csv.DictReader builds from a row: the
\* last column named key decides; a row too short for it holds None there
row_get(fieldnames, row, key, default) ==
  LET idx == {i \in 1..Len(fieldnames) : fieldnames[i] = key} IN
  IF idx = {} THEN default
  ELSE LET i == CHOOSE j \in idx : \A k \in idx : k <= j IN
       IF i <= Len(row) THEN row[i] ELSE NoneValue

\* the rows csv.DictReader yields: every row after the first, blank rows skipped
data_rows(raw) ==
  SelectIdx(raw, [i \in 1..Len(raw) |-> i > 1 /\ raw[i] # <<>>], 1)

\* .strip() on None raises AttributeError
row_raises(fieldnames, row) ==
  \/ row_get(fieldnames, row, S("iso_country"), Empty) = NoneValue
  \/ row_get(fieldnames, row, S("icao_code"), Empty) = NoneValue

\* the test on icao_code would be missing
row_selected_any_icao(fieldnames, row) ==
  strip(row_get(fieldnames, row, S("iso_country"), Empty)) = S("US")

\* if iso_country == 'US' and icao_code:
row_selected(fieldnames, row) ==
  /\ strip(row_get(fieldnames, row, S("iso_country"), Empty)) = S("US")
  /\ strip(row_get(fieldnames, row, S("icao_code"), Empty)) # Empty

\* the read phase fails: no such file, no header (reader.fieldnames, the first
\* row of the file, is None), or a row that raises
read_fails(raw) ==
  \/ raw = NoFile
  \/ Len(raw) = 0
  \/ \E i \in 1..Len(data_rows(raw)) : row_raises(raw[1], data_rows(raw)[i])

\* the selected rows would be collected in reverse
filtered_data_reversed(raw) ==
  LET rows == data_rows(raw)
      sel == SelectIdx(rows,
                       [i \in 1..Len(rows) |-> row_selected(raw[1], rows[i])], 1)
  IN [k \in 1..Len(sel) |-> sel[Len(sel) + 1 - k]]

\* filtered_data, kept as the selected rows of the reader
filtered_data_of(raw) ==
  LET rows == data_rows(raw) IN
  SelectIdx(rows, [i \in 1..Len(rows) |-> row_selected(raw[1], rows[i])], 1)

\* csv.DictWriter._dict_to_list raises ValueError for a row that carries the
\* restkey (more cells than the header has fields)
write_raises(fieldnames, row) == Len(row) > Len(fieldnames)

\* the row csv.DictWriter writes: the kept fields, None written as ''
dict_to_list(fieldnames, row) ==
  LET out == output_fieldnames_of(fieldnames) IN
  [j \in 1..Len(out) |->
     LET v == row_get(fieldnames, row, out[j], Empty) IN
     IF v = NoneValue THEN Empty ELSE v]

\* what a complete write phase leaves in the output file
filter_output(raw) ==
  LET fd == filtered_data_of(raw) IN
  <<output_fieldnames_of(raw[1])>> \o
  [k \in 1..Len(fd) |-> dict_to_list(raw[1], fd[k])]

\* filter_csv returns True on this raw file when no I/O error hits it
filter_succeeds(raw) ==
  /\ ~read_fails(raw)
  /\ \A k \in 1..Len(filtered_data_of(raw)) :
       ~write_raises(raw[1], filtered_data_of(raw)[k])

(***************************************************************************)
(* Inputs: what the remote URL may serve                                   *)
(***************************************************************************)
Hdr5 == <<S("id"), S("name"), S("iso_country"), S("icao_code"), S("home_link")>>
Hdr3 == <<S("name"), S("iso_country"), S("icao_code")>>

\* the example of the specification: A(US,K1), B(FR,K2), C(US,"")
RawSpecExample ==
  << Hdr5,
     <<S("1"), S("A"), S("US"), S("K1"), S("h")>>,
     <<S("2"), S("B"), S("FR"), S("K2"), S("h")>>,
     <<S("3"), S("C"), S("US"), Empty, S("h")>> >>

\* padded fields, a blank line, two survivors
RawPadded ==
  << Hdr3,
     <<S("D"), <<WS, "US", WS>>, <<WS, "K4">>>>,
     <<>>,
     <<S("E"), S("US"), <<WS>>>>,
     <<S("F"), S("US"), S("K6")>> >>

\* a qualifying row with one cell more than the header
RawLongRow ==
  << Hdr3,
     <<S("G"), S("US"), S("K7")>>,
     <<S("H"), S("US"), S("K8"), S("x")>> >>

\* a row too short to reach iso_country
RawShortRow == << Hdr3, <<S("I")>> >>

\* an empty payload
RawEmpty == <<>>

\* a payload whose first line is blank
RawBlankHeader == << <<>>, <<S("J"), S("US"), S("K9")>> >>

RawSources == {RawSpecExample, RawPadded, RawLongRow, RawShortRow, RawEmpty,
               RawBlankHeader}

\* the payloads served while two instances run
MultiSources == {RawSpecExample, RawLongRow}

\* a dataset published by an earlier run
OldPublished == << Hdr3, <<S("Z"), S("US"), S("K0")>> >>

OutputNames == { <<"airports", "csv">>, <<"airports", "tmp", "csv">> }

\* further output names main accepts: no suffix, a leading dot, two suffixes
ProbeNames == OutputNames \cup
  { <<"airports">>, <<"", "airports">>, <<"", "airports", "csv">>,
    <<"a", "b", "csv">>, <<"airports", "tmp">>, <<"tmp", "csv">> }

Names == OutputNames \cup {temp_path_of(n) : n \in OutputNames}

Instances == {"p1", "p2"}

(***************************************************************************)
(* State                                                                   *)
(***************************************************************************)
VARIABLES
  output_path,   \* args.output, as the file name
  fs,            \* the directory: file name -> content, NoFile if absent
  pc,            \* per instance: position in the program
  where,         \* per instance: the call of run_once that is active: "single" in
                 \* main (no --continuous), "first" or "loop" in run_continuously
  cycle,         \* per instance: number of calls of run_once so far
  resp,          \* per instance: the payload requests.get answered with
  off,           \* per instance: rows written through the open descriptor
  fdLive,        \* per instance: the open staging descriptor still names temp_path
  filtered_data, \* per instance: filter_csv's header and selected rows
  outcome,       \* per instance: how the last call of run_once ended
  pubBefore,     \* per instance: content of output_path when the cycle began
  exitStatus,    \* per instance: process exit status, -1 while running
  calls,         \* per instance: calls of download_file and filter_csv made by
                 \* the active run_once, and whether each returned True
  previous       \* per instance: payload and outcome of the cycle before

vars == <<output_path, fs, pc, where, cycle, resp, off, fdLive,
          filtered_data, outcome, pubBefore, exitStatus, calls, previous>>

temp_path == temp_path_of(output_path)

NoData == [fieldnames |-> <<>>, rows |-> <<>>]

\* run_once is entered: nothing called yet
NoCalls == [download_file |-> 0, filter_csv |-> 0,
            fetched |-> FALSE, filtered |-> FALSE]

\* main: args.output and args.continuous are chosen, run_once is about to be
\* called for the first time
Start(names, modes) ==
  /\ output_path \in names
  /\ where \in modes
  /\ \E old \in {NoFile, OldPublished} :
       fs = [n \in Names |-> IF n = output_path THEN old ELSE NoFile]
  /\ pc = [p \in Instances |-> "run_once"]
  /\ cycle = [p \in Instances |-> 1]
  /\ resp = [p \in Instances |-> <<>>]
  /\ off = [p \in Instances |-> 0]
  /\ fdLive = [p \in Instances |-> FALSE]
  /\ filtered_data = [p \in Instances |-> NoData]
  /\ outcome = [p \in Instances |-> "none"]
  /\ pubBefore = [p \in Instances |-> fs[output_path]]
  /\ exitStatus = [p \in Instances |-> -1]
  /\ calls = [p \in Instances |-> NoCalls]
  /\ previous = [p \in Instances |-> [resp |-> <<>>, outcome |-> "none"]]

Init == Start(OutputNames, {[p \in Instances |-> w] : w \in {"single", "first"}})

(***************************************************************************)
(* run_once and its callers                                                *)
(***************************************************************************)
Running(p) == pc[p] \notin {"exit", "stopped", "traceback"}

\* sys.exit(0 if success else 1)
exit_code(success) == IF success THEN 0 ELSE 1

\* run_once returns to its caller: main exits with the status, run_continuously
\* goes on to time.sleep
run_once_returns(p, success, how) ==
  /\ outcome' = [outcome EXCEPT ![p] = how]
  /\ pc' = [pc EXCEPT ![p] = IF where[p] = "single" THEN "exit" ELSE "sleep"]
  /\ exitStatus' = [exitStatus EXCEPT ![p] =
                      IF where[p] = "single" THEN exit_code(success) ELSE @]

\* an exception other than KeyboardInterrupt leaves run_once: no caller
\* catches it, the process ends with a traceback
run_once_raises(p) ==
  /\ outcome' = [outcome EXCEPT ![p] =
                   IF pc[p] = "cleanup_ok" THEN "raised_after_ok"
                   ELSE "raised_after_failure"]
  /\ pc' = [pc EXCEPT ![p] = "traceback"]
  /\ exitStatus' = [exitStatus EXCEPT ![p] = 1]

\* download_file would try again at once instead of returning False
download_file_fails_retry(p) ==
  /\ pc[p] = "run_once"
  /\ calls' = [calls EXCEPT ![p].download_file = @ + 1]
  /\ UNCHANGED <<output_path, previous, fs, pc, where, cycle, resp, off, fdLive,
                 filtered_data, outcome, pubBefore, exitStatus>>

\* download_file: mkdir, requests.get or raise_for_status or open raises; the
\* except clauses return False and run_once returns False
download_file_fails(p) ==
  /\ pc[p] = "run_once"
  /\ resp' = [resp EXCEPT ![p] = <<>>]
  /\ run_once_returns(p, FALSE, "fetch_failed")
  /\ calls' = [calls EXCEPT ![p].download_file = @ + 1]
  /\ UNCHANGED <<output_path, previous, fs, where, cycle, off, fdLive,
                 filtered_data, pubBefore>>

\* download_file: the request succeeds, open(output_path, 'wb') creates or
\* truncates the staging file
download_file_opens(p, raw) ==
  /\ pc[p] = "run_once"
  /\ resp' = [resp EXCEPT ![p] = raw]
  /\ fs' = [fs EXCEPT ![temp_path] = <<>>]
  /\ off' = [off EXCEPT ![p] = 0]
  /\ fdLive' = [fdLive EXCEPT ![p] = TRUE]
  /\ pc' = [pc EXCEPT ![p] = "dl_stream"]
  /\ calls' = [calls EXCEPT ![p].download_file = @ + 1]
  /\ UNCHANGED <<output_path, previous, where, cycle, filtered_data, outcome,
                 pubBefore, exitStatus>>

\* download_file: f.write(chunk) of the next chunk
download_file_writes(p) ==
  /\ pc[p] = "dl_stream"
  /\ off[p] < Len(resp[p])
  /\ fs' = IF fdLive[p]
           THEN [fs EXCEPT ![temp_path] = WriteAt(@, off[p], resp[p][off[p] + 1])]
           ELSE fs
  /\ off' = [off EXCEPT ![p] = @ + 1]
  /\ UNCHANGED <<output_path, calls, previous, pc, where, cycle, resp, fdLive,
                 filtered_data, outcome, pubBefore, exitStatus>>

\* run_once would ignore the False of download_file and go on to filter_csv
download_file_stream_fails_ignored(p) ==
  /\ pc[p] = "dl_stream"
  /\ fdLive' = [fdLive EXCEPT ![p] = FALSE]
  /\ pc' = [pc EXCEPT ![p] = "filter_csv"]
  /\ UNCHANGED <<output_path, calls, previous, fs, where, cycle, resp, off,
                 filtered_data, outcome, pubBefore, exitStatus>>

\* download_file: iter_content or f.write raises in mid-stream; the file is
\* closed as it is, download_file returns False and run_once returns False
download_file_stream_fails(p) ==
  /\ pc[p] = "dl_stream"
  /\ fdLive' = [fdLive EXCEPT ![p] = FALSE]
  /\ run_once_returns(p, FALSE, "fetch_failed")
  /\ UNCHANGED <<output_path, calls, previous, fs, where, cycle, resp, off,
                 filtered_data, pubBefore>>

\* download_file: the stream is exhausted, download_file returns True
download_file_completes(p) ==
  /\ pc[p] = "dl_stream"
  /\ off[p] = Len(resp[p])
  /\ fdLive' = [fdLive EXCEPT ![p] = FALSE]
  /\ pc' = [pc EXCEPT ![p] = "filter_csv"]
  /\ calls' = [calls EXCEPT ![p].fetched = TRUE]
  /\ UNCHANGED <<output_path, previous, fs, where, cycle, resp, off,
                 filtered_data, outcome, pubBefore, exitStatus>>

\* the output would be opened before the staging file is read, so that a
\* failing read leaves it truncated
filter_csv_rejects_after_open(p) ==
  /\ pc[p] = "filter_csv"
  /\ read_fails(fs[temp_path])
  /\ fs' = [fs EXCEPT ![output_path] = <<>>]
  /\ pc' = [pc EXCEPT ![p] = "cleanup_failed"]
  /\ calls' = [calls EXCEPT ![p].filter_csv = @ + 1]
  /\ UNCHANGED <<output_path, previous, where, cycle, resp, off, fdLive,
                 filtered_data, outcome, pubBefore, exitStatus>>

\* filter_csv: the staging file is missing, has no header, or a row raises
\* while it is read: filter_csv returns False before it opens the output
filter_csv_rejects(p) ==
  /\ pc[p] = "filter_csv"
  /\ read_fails(fs[temp_path])
  /\ pc' = [pc EXCEPT ![p] = "cleanup_failed"]
  /\ calls' = [calls EXCEPT ![p].filter_csv = @ + 1]
  /\ UNCHANGED <<output_path, previous, fs, where, cycle, resp, off, fdLive,
                 filtered_data, outcome, pubBefore, exitStatus>>

\* filter_csv: an I/O error while the staging file is opened or read, or
\* when the output is opened: filter_csv returns False
filter_csv_io_error(p) ==
  /\ pc[p] = "filter_csv"
  /\ pc' = [pc EXCEPT ![p] = "cleanup_failed"]
  /\ calls' = [calls EXCEPT ![p].filter_csv = @ + 1]
  /\ UNCHANGED <<output_path, previous, fs, where, cycle, resp, off, fdLive,
                 filtered_data, outcome, pubBefore, exitStatus>>

\* the output would be opened with 'a': an existing file is kept and the
\* header and rows are added at its end, up to a row that raises
filter_csv_opens_append(p) ==
  LET raw == fs[temp_path]
      rows == filtered_data_of(raw)
      stop == CHOOSE k \in 1..(Len(rows) + 1) :
                /\ k <= Len(rows) => write_raises(raw[1], rows[k])
                /\ \A h \in 1..(k - 1) : ~write_raises(raw[1], rows[h])
  IN
  /\ pc[p] = "filter_csv"
  /\ ~read_fails(raw)
  /\ filtered_data' = [filtered_data EXCEPT ![p] =
                         [fieldnames |-> raw[1], rows |-> rows]]
  /\ fs' = [fs EXCEPT ![output_path] =
              (IF @ = NoFile THEN <<>> ELSE @)
                \o <<output_fieldnames_of(raw[1])>>
                \o [k \in 1..(stop - 1) |-> dict_to_list(raw[1], rows[k])]]
  /\ off' = [off EXCEPT ![p] = stop]
  /\ pc' = [pc EXCEPT ![p] = "filter_write"]
  /\ calls' = [calls EXCEPT ![p].filter_csv = @ + 1]
  /\ UNCHANGED <<output_path, previous, where, cycle, resp, fdLive, outcome,
                 pubBefore, exitStatus>>

\* filter_csv: the whole staging file is read and selected, then
\* open(output_path, 'w') truncates the published file
filter_csv_opens_output(p) ==
  /\ pc[p] = "filter_csv"
  /\ ~read_fails(fs[temp_path])
  /\ filtered_data' = [filtered_data EXCEPT ![p] =
                         [fieldnames |-> fs[temp_path][1],
                          rows |-> filtered_data_of(fs[temp_path])]]
  /\ fs' = [fs EXCEPT ![output_path] = <<>>]
  /\ off' = [off EXCEPT ![p] = 0]
  /\ pc' = [pc EXCEPT ![p] = "filter_write"]
  /\ calls' = [calls EXCEPT ![p].filter_csv = @ + 1]
  /\ UNCHANGED <<output_path, previous, where, cycle, resp, fdLive, outcome,
                 pubBefore, exitStatus>>

\* the next row of the write phase: the header, then the selected rows
next_output_row(fd, n) ==
  IF n = 0 THEN output_fieldnames_of(fd.fieldnames)
  ELSE dict_to_list(fd.fieldnames, fd.rows[n])

\* the rows would be written to input_path instead of output_path
filter_csv_writes_to_input(p) ==
  /\ pc[p] = "filter_write"
  /\ off[p] <= Len(filtered_data[p].rows)
  /\ off[p] > 0 => ~write_raises(filtered_data[p].fieldnames,
                                 filtered_data[p].rows[off[p]])
  /\ fs' = [fs EXCEPT ![temp_path] =
              WriteAt(@, off[p], next_output_row(filtered_data[p], off[p]))]
  /\ off' = [off EXCEPT ![p] = @ + 1]
  /\ UNCHANGED <<output_path, calls, previous, pc, where, cycle, resp, fdLive,
                 filtered_data, outcome, pubBefore, exitStatus>>

\* filter_csv: writer.writeheader() or the next row of writer.writerows()
filter_csv_writes(p) ==
  /\ pc[p] = "filter_write"
  /\ off[p] <= Len(filtered_data[p].rows)
  /\ off[p] > 0 => ~write_raises(filtered_data[p].fieldnames,
                                 filtered_data[p].rows[off[p]])
  /\ fs' = [fs EXCEPT ![output_path] =
              WriteAt(@, off[p], next_output_row(filtered_data[p], off[p]))]
  /\ off' = [off EXCEPT ![p] = @ + 1]
  /\ UNCHANGED <<output_path, calls, previous, pc, where, cycle, resp, fdLive,
                 filtered_data, outcome, pubBefore, exitStatus>>

\* filter_csv: writer.writerows() raises ValueError on a row with surplus
\* cells; the output keeps what was written, filter_csv returns False
filter_csv_write_raises(p) ==
  /\ pc[p] = "filter_write"
  /\ off[p] > 0
  /\ off[p] <= Len(filtered_data[p].rows)
  /\ write_raises(filtered_data[p].fieldnames, filtered_data[p].rows[off[p]])
  /\ filtered_data' = [filtered_data EXCEPT ![p] = NoData]
  /\ pc' = [pc EXCEPT ![p] = "cleanup_failed"]
  /\ UNCHANGED <<output_path, calls, previous, fs, where, cycle, resp, off, fdLive,
                 outcome, pubBefore, exitStatus>>

\* filter_csv: an I/O error during the write phase; filter_csv returns False
filter_csv_write_io_error(p) ==
  /\ pc[p] = "filter_write"
  /\ filtered_data' = [filtered_data EXCEPT ![p] = NoData]
  /\ pc' = [pc EXCEPT ![p] = "cleanup_failed"]
  /\ UNCHANGED <<output_path, calls, previous, fs, where, cycle, resp, off, fdLive,
                 outcome, pubBefore, exitStatus>>

\* filter_csv: every row is written, the output is closed, filter_csv
\* returns True
filter_csv_completes(p) ==
  /\ pc[p] = "filter_write"
  /\ off[p] = Len(filtered_data[p].rows) + 1
  /\ filtered_data' = [filtered_data EXCEPT ![p] = NoData]
  /\ pc' = [pc EXCEPT ![p] = "cleanup_ok"]
  /\ calls' = [calls EXCEPT ![p].filtered = TRUE]
  /\ UNCHANGED <<output_path, previous, fs, where, cycle, resp, off, fdLive,
                 outcome, pubBefore, exitStatus>>

\* run_once: if temp_path.exists(): temp_path.unlink(), then return the
\* result of filter_csv
run_once_cleans_up(p) ==
  /\ pc[p] \in {"cleanup_ok", "cleanup_failed"}
  /\ fs' = [fs EXCEPT ![temp_path] = NoFile]
  /\ fdLive' = IF fs[temp_path] # NoFile
               THEN [q \in Instances |-> FALSE] ELSE fdLive
  /\ run_once_returns(p, pc[p] = "cleanup_ok",
                      IF pc[p] = "cleanup_ok" THEN "ok" ELSE "filter_failed")
  /\ UNCHANGED <<output_path, calls, previous, where, cycle, resp, off,
                 filtered_data, pubBefore>>

\* run_once: temp_path.unlink() raises OSError
run_once_cleanup_raises(p) ==
  /\ pc[p] \in {"cleanup_ok", "cleanup_failed"}
  /\ fs[temp_path] # NoFile
  /\ run_once_raises(p)
  /\ UNCHANGED <<output_path, calls, previous, fs, where, cycle, resp, off, fdLive,
                 filtered_data, pubBefore>>

\* the interval would start the next cycle whether or not the last returned
sleep_ends_overlapping(p) ==
  /\ pc[p] \in {"sleep", "dl_stream", "filter_write"}
  /\ cycle[p] < MaxCycles
  /\ pc' = [pc EXCEPT ![p] = "run_once"]
  /\ where' = [where EXCEPT ![p] = "loop"]
  /\ cycle' = [cycle EXCEPT ![p] = @ + 1]
  /\ pubBefore' = [pubBefore EXCEPT ![p] = fs[output_path]]
  /\ calls' = [calls EXCEPT ![p] = NoCalls]
  /\ previous' = [previous EXCEPT ![p] = [resp |-> resp[p], outcome |-> outcome[p]]]
  /\ UNCHANGED <<output_path, fs, resp, off, fdLive,
                 filtered_data, outcome, exitStatus>>

\* run_continuously: time.sleep(interval_seconds) returns, run_once is
\* called again inside the try block
sleep_ends(p) ==
  /\ pc[p] = "sleep"
  /\ cycle[p] < MaxCycles
  /\ pc' = [pc EXCEPT ![p] = "run_once"]
  /\ where' = [where EXCEPT ![p] = "loop"]
  /\ cycle' = [cycle EXCEPT ![p] = @ + 1]
  /\ pubBefore' = [pubBefore EXCEPT ![p] = fs[output_path]]
  /\ calls' = [calls EXCEPT ![p] = NoCalls]
  /\ previous' = [previous EXCEPT ![p] = [resp |-> resp[p], outcome |-> outcome[p]]]
  /\ UNCHANGED <<output_path, fs, resp, off, fdLive,
                 filtered_data, outcome, exitStatus>>

\* the try block of run_continuously covers time.sleep and the calls of
\* run_once in the loop, not the first call
in_try(position, call) == position = "sleep" \/ call = "loop"

\* Ctrl+C: KeyboardInterrupt is raised wherever the process is; open files
\* are closed as they are.  Inside the try block of run_continuously it is
\* caught ("Program stopped"), elsewhere it ends the process with a traceback
KeyboardInterrupt(p) ==
  /\ Running(p)
  /\ pc' = [pc EXCEPT ![p] =
              IF in_try(pc[p], where[p]) THEN "stopped" ELSE "traceback"]
  /\ exitStatus' = [exitStatus EXCEPT ![p] =
                      IF in_try(pc[p], where[p]) THEN 0 ELSE 130]
  /\ outcome' = [outcome EXCEPT ![p] = IF pc[p] = "sleep" THEN @ ELSE "interrupted"]
  /\ fdLive' = [fdLive EXCEPT ![p] = FALSE]
  /\ filtered_data' = [filtered_data EXCEPT ![p] = NoData]
  /\ UNCHANGED <<output_path, calls, previous, fs, where, cycle, resp, off,
                 pubBefore>>

Step(p, sources) ==
  \/ download_file_fails(p)
  \/ \E raw \in sources : download_file_opens(p, raw)
  \/ download_file_writes(p)
  \/ download_file_stream_fails(p)
  \/ download_file_completes(p)
  \/ filter_csv_rejects(p)
  \/ filter_csv_io_error(p)
  \/ filter_csv_opens_output(p)
  \/ filter_csv_writes(p)
  \/ filter_csv_write_raises(p)
  \/ filter_csv_write_io_error(p)
  \/ filter_csv_completes(p)
  \/ run_once_cleans_up(p)
  \/ run_once_cleanup_raises(p)
  \/ sleep_ends(p)
  \/ KeyboardInterrupt(p)

\* one process
Next == Step("p1", RawSources)

Spec == Init /\ [][Next]_vars

\* two processes started on the same output path, one with --continuous and
\* one without
InitMulti == Start({<<"airports", "csv">>}, {[p \in Instances |-> IF p = "p1" THEN "first" ELSE "single"]})

NextMulti == \E p \in Instances : Step(p, MultiSources)

SpecMulti == InitMulti /\ [][NextMulti]_vars

TypeOK ==
  /\ output_path \in OutputNames
  /\ DOMAIN fs = Names
  /\ \A p \in Instances :
       /\ pc[p] \in {"run_once", "dl_stream", "filter_csv", "filter_write",
                     "cleanup_ok", "cleanup_failed", "sleep", "exit",
                     "stopped", "traceback"}
       /\ where[p] \in {"single", "first", "loop"}
       /\ cycle[p] \in 1..MaxCycles
       /\ off[p] \in Nat
       /\ exitStatus[p] \in {-1, 0, 1, 130}

(***************************************************************************)
(* Properties                                                              *)
(***************************************************************************)
\* the process of Spec
Proc == "p1"

InCycle == {"run_once", "dl_stream", "filter_csv", "filter_write",
            "cleanup_ok", "cleanup_failed"}

Returned(p) == pc[p] \in {"sleep", "exit"}

\* the published file holds the dataset of before the cycle or the whole
\* dataset the cycle's payload filters to
SeesOldOrNew(p) ==
  \/ fs[output_path] = pubBefore[p]
  \/ /\ ~read_fails(resp[p])
     /\ fs[output_path] = filter_output(resp[p])

\* C1: at every instant a reader of the published path sees the complete
\* previous dataset or the complete new dataset, never an empty or partly
\* written file.
C1_ReaderSeesCompleteDataset == SeesOldOrNew(Proc)

\* C2: after a cycle that ended in failure, at whatever stage, the published
\* file is what it was before the cycle.
C2_FailureLeavesPublishedUnchanged ==
  (Returned(Proc) /\ outcome[Proc] \in {"fetch_failed", "filter_failed"})
    => fs[output_path] = pubBefore[Proc]

\* C3: in continuous mode, when download_file fails in a cycle, the published
\* file after the cycle is the one of before the cycle, the scheduler goes to
\* its interval sleep, and from that sleep it only starts the next cycle
\* (or is stopped by Ctrl+C).
C3_FetchFailureIsolated ==
  /\ [](\A p \in {Proc} :
          (where[p] # "single" /\ outcome[p] = "fetch_failed" /\ pc[p] = "sleep")
            => fs[output_path] = pubBefore[p])
  /\ [][\A p \in {Proc} :
          /\ (where[p] # "single" /\ pc[p] \in InCycle
                /\ outcome'[p] = "fetch_failed" /\ pc'[p] \notin InCycle)
               => /\ pc'[p] = "sleep"
                  /\ fs'[output_path] = pubBefore[p]
          /\ (pc[p] = "sleep" /\ outcome[p] = "fetch_failed" /\ pc'[p] # "sleep")
               => \/ pc'[p] = "stopped"
                  \/ pc'[p] = "run_once" /\ cycle'[p] = cycle[p] + 1]_vars

\* C3 witness: the first cycle failed in mid-download, the published file is
\* the old dataset and the second cycle is downloading.
C3_Witness ==
  /\ cycle[Proc] = 2
  /\ pc[Proc] = "dl_stream"
  /\ outcome[Proc] = "fetch_failed"
  /\ fs[output_path] = OldPublished

\* C4: once a cycle has returned, on any path, its staging file is gone.
C4_NoStagingAfterCycle == Returned(Proc) => fs[temp_path] = NoFile

\* C5: in continuous mode the first cycle starts at once, every cycle that
\* ends (not by Ctrl+C) is followed by the interval sleep, and the sleep is
\* followed by exactly the next cycle: no failure stops the loop.
C5_LoopAlternatesSleepAndCycle ==
  [][\A p \in {Proc} : where[p] # "single" =>
       /\ (pc[p] \in InCycle /\ pc'[p] \notin InCycle
             /\ outcome'[p] # "interrupted") => pc'[p] = "sleep"
       /\ (pc[p] = "sleep" /\ pc'[p] # "sleep")
            => \/ pc'[p] = "stopped"
               \/ pc'[p] = "run_once" /\ cycle'[p] = cycle[p] + 1]_vars

\* C6: a failure to remove the staging file is not escalated: no exception
\* leaves run_once, the cycle reports the outcome of its stages.
C6_CleanupFailureNotEscalated ==
  outcome[Proc] \notin {"raised_after_ok", "raised_after_failure"}

\* C7: the stages of a cycle run in order and none is partly applied: the
\* filter starts only when the download of the cycle has completed, and the
\* published file changes only in the step that completes the filter stage
\* successfully.
C7_StagesInOrder ==
  [][/\ (pc[Proc] # "filter_csv" /\ pc'[Proc] = "filter_csv")
          => (pc[Proc] = "dl_stream" /\ off[Proc] = Len(resp[Proc]))
     /\ fs'[output_path] # fs[output_path]
          => (pc[Proc] = "filter_write" /\ pc'[Proc] = "cleanup_ok")]_vars

\* C8: in continuous mode Ctrl+C at any point stops the scheduler through
\* the handled path, and the published file is then a complete old or new
\* dataset.
C8_InterruptStopsCleanly ==
  (where[Proc] # "single"
     /\ (pc[Proc] = "stopped" \/ outcome[Proc] = "interrupted"))
    => (pc[Proc] = "stopped" /\ SeesOldOrNew(Proc))

\* C9: single-shot mode runs one cycle, and the exit status is 0 exactly
\* when the download and the filter of that cycle both succeeded.
C9_ExitStatusReflectsCycle ==
  (where[Proc] = "single" /\ ~Running(Proc) /\ outcome[Proc] # "interrupted")
    => /\ cycle[Proc] = 1
       /\ exitStatus[Proc] = 0 <=> outcome[Proc] \in {"ok", "raised_after_ok"}

\* C10: with two instances on one published path, what an instance filters
\* is the staging content its own download wrote in full.
C10_StagingNotShared ==
  \A p \in Instances : pc[p] = "filter_csv" => fs[temp_path] = resp[p]

\* C11: download_file writes only to the staging path, and the staging path
\* differs from the output path whatever the output name is; so while the
\* download runs, and after it failed or wrote only a part, the published
\* file is what it was before the cycle.
C11_DownloadTouchesOnlyStaging ==
  [][/\ \A n \in ProbeNames : temp_path_of(n) # n
     /\ pc[Proc] \in {"run_once", "dl_stream"}
          => /\ \A n \in Names \ {temp_path} : fs'[n] = fs[n]
             /\ fs'[output_path] = pubBefore[Proc]]_vars

\* C11 witness: the download failed after writing a part of the payload to
\* the staging file of airports.tmp.csv; the old dataset is still published.
C11_Witness ==
  /\ output_path = <<"airports", "tmp", "csv">>
  /\ Returned(Proc) /\ outcome[Proc] = "fetch_failed"
  /\ fs[temp_path] # NoFile
  /\ Len(fs[temp_path]) > 0 /\ Len(fs[temp_path]) < Len(resp[Proc])
  /\ fs[output_path] = OldPublished

\* the text without its leading and trailing whitespace, described by the
\* positions of its other characters
Trimmed(s) ==
  LET solid == {i \in 1..Len(s) : s[i] # WS} IN
  IF solid = {} THEN <<>>
  ELSE SubSeq(s, CHOOSE i \in solid : \A j \in solid : i <= j,
                 CHOOSE i \in solid : \A j \in solid : j <= i)

\* the cell of a record under a field name; none if the record lacks it
HasField(hdr, row, name, value) ==
  \E i \in 1..Len(hdr) : hdr[i] = name /\ i <= Len(row) /\ row[i] = value

\* the selection rule of the specification on a raw record
Qualifies(hdr, row) ==
  \E c \in {<<"US">>, <<WS, "US">>, <<"US", WS>>, <<WS, "US", WS>>} :
    /\ HasField(hdr, row, S("iso_country"), c)
    /\ Trimmed(c) = S("US")
    /\ \E i \in 1..Len(hdr) :
         hdr[i] = S("icao_code") /\ i <= Len(row) /\ Trimmed(row[i]) # <<>>

\* the records of a file: the non-blank rows after the header
Records(file) == {i \in 2..Len(file) : file[i] # <<>>}

\* two records, each with its header, are the same airport
SameRecord(hdrA, rowA, hdrB, rowB) ==
  \E v \in {rowA[i] : i \in 1..Len(rowA)} :
    HasField(hdrA, rowA, S("name"), v) /\ HasField(hdrB, rowB, S("name"), v)

\* filter_csv of the active cycle has returned True on the payload
Filtered(p) == calls[p].filtered /\ resp[p] # <<>>

\* C12: after filter_csv succeeded, a raw record is in the output exactly if
\* its iso_country is 'US' after trimming and its icao_code is non-empty
\* after trimming: no other record is kept, no qualifying record is dropped.
C12_SelectedIffQualifies ==
  Filtered(Proc) =>
    LET raw == resp[Proc]
        pub == fs[output_path] IN
    /\ \A i \in Records(raw) :
         Qualifies(raw[1], raw[i])
           <=> \E k \in Records(pub) : SameRecord(raw[1], raw[i], pub[1], pub[k])
    /\ \A k \in Records(pub) :
         \E i \in Records(raw) :
           Qualifies(raw[1], raw[i]) /\ SameRecord(raw[1], raw[i], pub[1], pub[k])

\* C12 witness: the padded payload was filtered: D (' US ', ' K4') and F are
\* in the output, E (icao_code blank) is not.
C12_Witness ==
  /\ Filtered(Proc) /\ resp[Proc] = RawPadded
  /\ Len(fs[output_path]) = 3
  /\ fs[output_path][2][1] = S("D")

\* the fields the specification removes
RemovedFields ==
  {S("id"), S("home_link"), S("wikipedia_link"), S("keywords")}

\* the positions of the header that are kept, and the rank of one among them
KeptAt(hdr) == {i \in 1..Len(hdr) : hdr[i] \notin RemovedFields}
RankIn(set, i) == Cardinality({k \in set : k <= i})

\* C13: after a successful cycle the published header is the raw header
\* without the removed fields, the others in their original order; every
\* output row has exactly these columns; the header of the example,
\* [id, name, iso_country, icao_code, home_link], gives
\* [name, iso_country, icao_code].
C13_HeaderIsProjection ==
  Filtered(Proc) =>
    LET hdr == resp[Proc][1]
        pub == fs[output_path] IN
    /\ Len(pub[1]) = Cardinality(KeptAt(hdr))
    /\ \A i \in KeptAt(hdr) : pub[1][RankIn(KeptAt(hdr), i)] = hdr[i]
    /\ \A j \in 1..Len(pub[1]) : pub[1][j] \notin RemovedFields
    /\ \A k \in 2..Len(pub) :
         /\ Len(pub[k]) = Len(pub[1])
         /\ \E i \in Records(resp[Proc]) :
              \A c \in KeptAt(hdr) :
                pub[k][RankIn(KeptAt(hdr), c)] = resp[Proc][i][c]
    /\ hdr = <<S("id"), S("name"), S("iso_country"), S("icao_code"), S("home_link")>>
         => pub[1] = <<S("name"), S("iso_country"), S("icao_code")>>

\* C13 witness: the example payload with id and home_link was filtered.
C13_Witness ==
  /\ Filtered(Proc) /\ resp[Proc] = RawSpecExample
  /\ fs[output_path][1] = Hdr3

\* the qualifying records of a raw file
QualifyingAt(raw) == {i \in Records(raw) : Qualifies(raw[1], raw[i])}

\* C14: the output lists the qualifying records in the order of the raw
\* file, each once: the k-th output row is the k-th qualifying raw record.
\* The example rows A(US,K1), B(FR,K2), C(US,"") give exactly [A].
C14_OrderPreserved ==
  Filtered(Proc) =>
    LET raw == resp[Proc]
        pub == fs[output_path] IN
    /\ Len(pub) = 1 + Cardinality(QualifyingAt(raw))
    /\ \A i \in QualifyingAt(raw) :
         SameRecord(raw[1], raw[i], pub[1], pub[1 + RankIn(QualifyingAt(raw), i)])
    /\ raw = RawSpecExample
         => pub = << <<S("name"), S("iso_country"), S("icao_code")>>,
                     <<S("A"), S("US"), S("K1")>> >>

\* C14 witness: two survivors, D before F as in the raw file.
C14_Witness ==
  /\ Filtered(Proc) /\ resp[Proc] = RawPadded
  /\ fs[output_path][2][1] = S("D")
  /\ fs[output_path][3][1] = S("F")

\* C15: two cycles in succession that both succeed on the same payload
\* publish the same content: the second result is the first result, whatever
\* was published or left behind before.
C15_Idempotent ==
  (/\ Returned(Proc) /\ outcome[Proc] = "ok"
   /\ previous[Proc].outcome = "ok"
   /\ previous[Proc].resp = resp[Proc])
    => fs[output_path] = pubBefore[Proc]

\* C15 witness: the second of two successful cycles on the padded payload
\* has returned.
C15_Witness ==
  /\ Returned(Proc) /\ outcome[Proc] = "ok" /\ cycle[Proc] = 2
  /\ previous[Proc] = [resp |-> RawPadded, outcome |-> "ok"]
  /\ resp[Proc] = RawPadded
  /\ Len(fs[output_path]) = 3

\* the raw file has no header line, or a blank one
HeaderMissingOrEmpty(raw) == Len(raw) = 0 \/ raw[1] = <<>>

\* C16: when the fetched file has a missing or empty header, the filter
\* fails before it writes anything, the cycle ends as failed, the published
\* file is unchanged and the staging file is removed.
C16_BadHeaderFailsCycle ==
  (calls[Proc].fetched /\ HeaderMissingOrEmpty(resp[Proc]))
    => /\ pc[Proc] # "filter_write"
       /\ Returned(Proc)
            => /\ outcome[Proc] = "filter_failed"
               /\ fs[output_path] = pubBefore[Proc]
               /\ fs[temp_path] = NoFile

\* C17: cycles of one scheduler never overlap: a cycle starts only from the
\* interval sleep, that is after the cycle before it has returned, however
\* many chunks its download took.
C17_OneCycleAtATime ==
  [][\A p \in {Proc} :
       (cycle'[p] # cycle[p] \/ (pc'[p] = "run_once" /\ pc[p] # "run_once"))
         => /\ cycle'[p] = cycle[p] + 1
            /\ pc[p] = "sleep" /\ pc'[p] = "run_once"
            /\ outcome[p] \in {"ok", "fetch_failed", "filter_failed"}]_vars

\* C17 witness: the first cycle downloaded the five chunks of the padded
\* payload and returned; the second cycle is running.
C17_Witness ==
  /\ cycle[Proc] = 2 /\ pc[Proc] = "filter_csv"
  /\ previous[Proc] = [resp |-> RawPadded, outcome |-> "ok"]

\* C18: the filter reads the staging file only when the download of the same
\* cycle has returned True and the file holds the whole payload of that
\* download; what it selects for the output comes from that payload alone.
C18_NoPartialPromotion ==
  \A p \in {Proc} :
    /\ calls[p].filter_csv > 0 => calls[p].fetched
    /\ pc[p] = "filter_csv" => fs[temp_path] = resp[p]
    /\ pc[p] = "filter_write"
         => /\ resp[p] # <<>>
            /\ filtered_data[p].fieldnames = resp[p][1]
            /\ \A k \in 1..Len(filtered_data[p].rows) :
                 \E i \in Records(resp[p]) : filtered_data[p].rows[k] = resp[p][i]

\* C18 witness: the first cycle failed in mid-download and left bytes in the
\* staging file; the second cycle has downloaded the example in full and is
\* about to filter it.
C18_Witness ==
  /\ cycle[Proc] = 2 /\ pc[Proc] = "filter_csv"
  /\ previous[Proc] = [resp |-> RawPadded, outcome |-> "fetch_failed"]
  /\ resp[Proc] = RawSpecExample
  /\ fs[temp_path] = RawSpecExample

\* C19: within one cycle download_file is called at most once and
\* filter_csv at most once; a failed download is followed by no further
\* call in that cycle.
C19_NoRetryInCycle ==
  \A p \in {Proc} :
    /\ calls[p].download_file <= 1
    /\ calls[p].filter_csv <= 1
    /\ (Returned(p) /\ outcome[p] = "fetch_failed")
         => (calls[p].download_file = 1 /\ calls[p].filter_csv = 0)

\* C19 witness: the first cycle failed at the download; the next attempt is
\* the download of the second cycle.
C19_Witness ==
  /\ cycle[Proc] = 2 /\ pc[Proc] = "dl_stream"
  /\ previous[Proc].outcome = "fetch_failed"
  /\ calls[Proc].download_file = 1

\* C20: run_once returns success exactly when the download and the filter of
\* the cycle both succeeded, and then the published file is exactly the
\* filtered projection of the payload of that cycle.
C20_SuccessIffBothSucceeded ==
  (pc[Proc] \notin InCycle /\ outcome[Proc] \notin {"none", "interrupted"})
    => /\ outcome[Proc] = "ok" <=> (calls[Proc].fetched /\ calls[Proc].filtered)
       /\ outcome[Proc] = "ok" => fs[output_path] = filter_output(resp[Proc])


\* C21: filter_csv opens the output only when the whole staging file has
\* been read and selected: a call that fails before that (staging file
\* missing or unreadable, no header, a row that raises) returns False with
\* the output as it was before the cycle; the output changes during
\* filter_csv only from the opening of the write phase on.
C21_OutputOpenedAfterRead ==
  [][\A p \in {Proc} :
       /\ (pc[p] = "filter_csv" /\ pc'[p] = "cleanup_failed")
            => /\ fs'[output_path] = fs[output_path]
               /\ fs'[output_path] = pubBefore[p]
       /\ (pc[p] = "filter_csv" /\ fs'[output_path] # fs[output_path])
            => /\ ~read_fails(fs[temp_path])
               /\ pc'[p] = "filter_write"
               /\ filtered_data'[p].fieldnames = fs[temp_path][1]
               /\ \A i \in Records(fs[temp_path]) :
                    Qualifies(fs[temp_path][1], fs[temp_path][i])
                      => \E k \in 1..Len(filtered_data'[p].rows) :
                           filtered_data'[p].rows[k] = fs[temp_path][i]
       /\ (pc[p] \in {"filter_csv", "filter_write"}
             /\ fs'[output_path] # fs[output_path])
            => pc'[p] = "filter_write"]_vars

\* C21 witness: filter_csv has returned False on a payload with a row too
\* short for iso_country; the old dataset is still published.
C21_Witness ==
  /\ pc[Proc] = "cleanup_failed" /\ calls[Proc].filter_csv = 1
  /\ resp[Proc] = RawShortRow
  /\ fs[temp_path] = RawShortRow
  /\ fs[output_path] = OldPublished

\* C22: filter_csv writes to the output path only: from its call to its
\* return, with True or False, no other file changes and the staging file
\* holds what the download left in it.
C22_FilterLeavesInputAlone ==
  /\ [][pc[Proc] \in {"filter_csv", "filter_write"}
          => \A n \in Names \ {output_path} : fs'[n] = fs[n]]_vars
  /\ [](pc[Proc] \in {"filter_csv", "filter_write", "cleanup_ok", "cleanup_failed"}
          => (temp_path # output_path /\ fs[temp_path] = resp[Proc]))

\* C22 witness: filter_csv has returned True on the padded payload; the
\* staging file still holds the five raw lines, the output the three
\* filtered ones.
C22_Witness ==
  /\ pc[Proc] = "cleanup_ok"
  /\ fs[temp_path] = RawPadded
  /\ Len(fs[output_path]) = 3

====
